---------------------------- MODULE Spec2Model ----------------------------
(***************************************************************************)
(* Model of src/ficc/fixed_income/bonds.py: price_bond, calculate_duration,*)
(* calculate_convexity, calculate_dv01, bond_analytics and                 *)
(* price_change_estimate.                                                  *)
(*                                                                         *)
(* The program is a library of pure functions of scalar arguments.  Each   *)
(* function is an operator; the state machine draws one Bond Instrument    *)
(* Quote in Init, and each action is one call of one of the six functions  *)
(* on that quote, recording the call's outcome.                            *)
(*                                                                         *)
(* Arithmetic.  The code computes in Python floats.  The model computes in *)
(* exact rationals (arbitrary-precision numerator and denominator, kept as *)
(* sequences of base-10000 limbs, since the checker's integers are 32 bits *)
(* wide).  round(x, k) is modelled as correct rounding of the exact value  *)
(* to k decimals, ties to even, which is what Python's round does on the   *)
(* value it is given.  Binary representation error of floats (about 1e-16  *)
(* relative) is not modelled; float overflow is not modelled.              *)
(***************************************************************************)
EXTENDS Integers, Sequences, FiniteSets, TLC

----------------------------------------------------------------------------
(* Natural numbers of any size: little-endian sequences of limbs, no       *)
(* leading zero limb, zero is the empty sequence.                          *)

Base == 100 * 100

RECURSIVE BTrim(_)
BTrim(s) ==
    IF s = <<>> THEN s
    ELSE IF s[Len(s)] = 0 THEN BTrim(SubSeq(s, 1, Len(s) - 1)) ELSE s

RECURSIVE BFromNat(_)
BFromNat(n) == IF n = 0 THEN <<>> ELSE <<n % Base>> \o BFromNat(n \div Base)

RECURSIVE BToNat(_)
BToNat(s) == IF s = <<>> THEN 0 ELSE s[1] + Base * BToNat(Tail(s))

Limb(s, i) == IF i <= Len(s) THEN s[i] ELSE 0

RECURSIVE BAddFrom(_, _, _, _)
BAddFrom(a, b, i, c) ==
    IF i > Len(a) /\ i > Len(b)
    THEN (IF c = 0 THEN <<>> ELSE <<c>>)
    ELSE LET t == Limb(a, i) + Limb(b, i) + c
         IN  <<t % Base>> \o BAddFrom(a, b, i + 1, t \div Base)

BAdd(a, b) == BAddFrom(a, b, 1, 0)

RECURSIVE BSubFrom(_, _, _, _)
BSubFrom(a, b, i, c) ==
    IF i > Len(a) THEN <<>>
    ELSE LET t == a[i] - Limb(b, i) - c
         IN  IF t < 0 THEN <<t + Base>> \o BSubFrom(a, b, i + 1, 1)
                      ELSE <<t>> \o BSubFrom(a, b, i + 1, 0)

\* a - b for a >= b
BSub(a, b) == BTrim(BSubFrom(a, b, 1, 0))

RECURSIVE BCmpAt(_, _, _)
BCmpAt(a, b, i) ==
    IF i = 0 THEN 0
    ELSE IF a[i] < b[i] THEN -1
    ELSE IF a[i] > b[i] THEN 1
    ELSE BCmpAt(a, b, i - 1)

\* -1, 0, 1 as a < b, a = b, a > b
BCmp(a, b) ==
    IF Len(a) < Len(b) THEN -1
    ELSE IF Len(a) > Len(b) THEN 1
    ELSE BCmpAt(a, b, Len(a))

RECURSIVE BMulSmallFrom(_, _, _, _)
BMulSmallFrom(a, m, i, c) ==
    IF i > Len(a)
    THEN (IF c = 0 THEN <<>> ELSE <<c>>)
    ELSE LET t == a[i] * m + c
         IN  <<t % Base>> \o BMulSmallFrom(a, m, i + 1, t \div Base)

\* a * m for a limb m
BMulSmall(a, m) == IF m = 0 THEN <<>> ELSE BMulSmallFrom(a, m, 1, 0)

BShift(a) == IF a = <<>> THEN a ELSE <<0>> \o a

RECURSIVE BMul(_, _)
BMul(a, b) ==
    IF a = <<>> \/ b = <<>> THEN <<>>
    ELSE BAdd(BMulSmall(a, Head(b)), BShift(BMul(a, Tail(b))))

\* the largest q in lo..hi with b * q <= r, given b * lo <= r
RECURSIVE QDigit(_, _, _, _)
QDigit(r, b, lo, hi) ==
    IF lo = hi THEN lo
    ELSE LET mid == (lo + hi + 1) \div 2
         IN  IF BCmp(BMulSmall(b, mid), r) <= 0
             THEN QDigit(r, b, mid, hi)
             ELSE QDigit(r, b, lo, mid - 1)

\* one step of long division: hi is <<quotient, remainder>> of the limbs
\* above, rem the remainder with the next limb brought down, q the next
\* quotient limb
BDivEmit(b, hi, rem, q) == << BTrim(<<q>> \o hi[1]), BSub(rem, BMulSmall(b, q)) >>

BDivDigit(b, hi, rem) ==
    BDivEmit(b, hi, rem, IF BCmp(rem, b) < 0 THEN 0 ELSE QDigit(rem, b, 1, Base - 1))

BDivStep(a, b, i, hi) == BDivDigit(b, hi, BTrim(<<a[i]>> \o hi[2]))

\* <<quotient, remainder>> of the limbs i..Len(a) of a by b > 0
RECURSIVE BDivFrom(_, _, _)
BDivFrom(a, b, i) ==
    IF i > Len(a) THEN << <<>>, <<>> >> ELSE BDivStep(a, b, i, BDivFrom(a, b, i + 1))

BDivMod(a, b) == BDivFrom(a, b, 1)

RECURSIVE BPow10(_)
BPow10(k) == IF k = 0 THEN <<1>> ELSE BMulSmall(BPow10(k - 1), 10)

----------------------------------------------------------------------------
(* Exact rationals: [neg, n, d] is (-1)^neg * n / d with d > 0; fractions   *)
(* are not reduced.  A Python float is modelled by the rational it would   *)
(* hold in exact arithmetic.                                               *)

Rat(neg, n, d) == [neg |-> neg /\ n # <<>>, n |-> n, d |-> d]

RInt(k) == IF k < 0 THEN Rat(TRUE, BFromNat(-k), <<1>>) ELSE Rat(FALSE, BFromNat(k), <<1>>)

\* the rational p[1] / p[2] of a pair of integers, p[2] > 0
RFrac(p) ==
    IF p[1] < 0 THEN Rat(TRUE, BFromNat(-p[1]), BFromNat(p[2]))
                ELSE Rat(FALSE, BFromNat(p[1]), BFromNat(p[2]))

RNeg(x) == Rat(~x.neg, x.n, x.d)

RAbs(x) == Rat(FALSE, x.n, x.d)

RIsZero(x) == x.n = <<>>

RSign(x) == IF x.n = <<>> THEN 0 ELSE IF x.neg THEN -1 ELSE 1

\* x and y brought to one denominator: <<numerator of x, numerator of y,
\* denominator>>.  When one denominator divides the other it is kept, which
\* keeps the sums of the per-period loops from growing with every term.
CommonBy(x, y, xy, yx) ==
    IF xy[2] = <<>> THEN <<BMul(x.n, xy[1]), y.n, y.d>>
    ELSE IF yx[2] = <<>> THEN <<x.n, BMul(y.n, yx[1]), x.d>>
    ELSE <<BMul(x.n, y.d), BMul(y.n, x.d), BMul(x.d, y.d)>>

Common(x, y) ==
    IF x.d = y.d THEN <<x.n, y.n, x.d>>
    ELSE CommonBy(x, y, BDivMod(y.d, x.d), BDivMod(x.d, y.d))

RAddBy(c, xneg, yneg) ==
    IF xneg = yneg THEN Rat(xneg, BAdd(c[1], c[2]), c[3])
    ELSE IF BCmp(c[1], c[2]) >= 0 THEN Rat(xneg, BSub(c[1], c[2]), c[3])
    ELSE Rat(yneg, BSub(c[2], c[1]), c[3])

RAdd(x, y) == RAddBy(Common(x, y), x.neg, y.neg)

RSub(x, y) == RAdd(x, RNeg(y))

RMul(x, y) == Rat(x.neg # y.neg, BMul(x.n, y.n), BMul(x.d, y.d))

\* x / y for y # 0
RDiv(x, y) == Rat(x.neg # y.neg, BMul(x.n, y.d), BMul(x.d, y.n))

RCmp(x, y) == RSign(RSub(x, y))

REq(x, y) == RCmp(x, y) = 0

RLe(x, y) == RCmp(x, y) <= 0

RLt(x, y) == RCmp(x, y) < 0

\* x ** n for an integer n >= 0
RECURSIVE RPow(_, _)
RPow(x, n) == IF n = 0 THEN RInt(1) ELSE RMul(x, RPow(x, n - 1))

\* x ** -n for an integer n >= 0 and x # 0
RPowNeg(x, n) == RDiv(RInt(1), RPow(x, n))


Signed(neg, mag) == IF neg THEN -mag ELSE mag

\* int(x): truncation toward zero
IntTrunc(x) == Signed(x.neg, BToNat(BDivMod(x.n, x.d)[1]))

RoundTo(neg, q, c) == Signed(neg, IF c > 0 \/ (c = 0 /\ q % 2 = 1) THEN q + 1 ELSE q)

RoundBy(x, qr) == RoundTo(x.neg, BToNat(qr[1]), BCmp(BMulSmall(qr[2], 2), x.d))

\* round(x, k) in units of 10^-k: the exact value correctly rounded to k
\* decimals, ties to even.  Round(x, 2) = 12345 stands for the float 123.45.
Round(x, k) == RoundBy(x, BDivMod(BMul(x.n, BPow10(k)), x.d))

\* the float that round(_, k) returned, from its units
Dec(u, k) ==
    IF u < 0 THEN Rat(TRUE, BFromNat(-u), BPow10(k)) ELSE Rat(FALSE, BFromNat(u), BPow10(k))

----------------------------------------------------------------------------
(* The six functions.  A function's local variables are the parameters of  *)
(* the operators that continue it, so that each is computed once, as in    *)
(* the code.  b is the argument tuple, its reals as rationals.             *)
(*                                                                         *)
(* Outcomes of a call: a returned mapping (fields in units of their        *)
(* rounding: price 100023 is 1000.23, macaulay_duration 28258 is 2.8258),  *)
(* or a raised exception.  priced counts the executions of price_bond's    *)
(* arithmetic (lines 21-39) that the call completed before it ended.       *)

Ok(v, k) == [status |-> "ok", value |-> v, priced |-> k]

Raise(kind, msg, k) == [status |-> kind, msg |-> msg, priced |-> k]

\* an outcome of a callee, seen from a caller that had completed k pricings
After(k, o) == [o EXCEPT !.priced = @ + k]

AllowedFrequencies == {1, 2, 4, 12}

BasisPoint == RFrac(<<1, 10000>>)

\* Validate with coupon_frequency 3 let through
ValidateAllowingThree(b) ==
    IF RSign(b.face_value) <= 0 \/ RSign(b.years_to_maturity) <= 0
    THEN "Face value and maturity must be positive"
    ELSE IF RSign(b.coupon_rate) < 0 \/ RSign(b.yield_to_maturity) < 0
    THEN "Rates cannot be negative"
    ELSE IF b.coupon_frequency \notin {1, 2, 3, 4, 12}
    THEN "Frequency must be 1, 2, 4, or 12"
    ELSE ""

\* the message of the ValueError price_bond raises for b, "" when it raises none
Validate(b) ==
    IF RSign(b.face_value) <= 0 \/ RSign(b.years_to_maturity) <= 0
    THEN "Face value and maturity must be positive"
    ELSE IF RSign(b.coupon_rate) < 0 \/ RSign(b.yield_to_maturity) < 0
    THEN "Rates cannot be negative"
    ELSE IF b.coupon_frequency \notin AllowedFrequencies
    THEN "Frequency must be 1, 2, 4, or 12"
    ELSE ""

n_periods(b) == IntTrunc(RMul(b.years_to_maturity, RInt(b.coupon_frequency)))

coupon_payment(b) ==
    RDiv(RMul(b.face_value, b.coupon_rate), RInt(b.coupon_frequency))

periodic_yield(b) == RDiv(b.yield_to_maturity, RInt(b.coupon_frequency))

\* (1 + periodic_yield) ** k
Compound(b, k) == RPow(RAdd(RInt(1), periodic_yield(b)), k)

\* price_branch with the face value left undiscounted in the general branch
price_branch_undiscounted(b, n, cp, py, growth) ==
    IF RIsZero(b.coupon_rate) THEN RDiv(b.face_value, growth)
    ELSE IF RIsZero(py) THEN RAdd(RMul(cp, RInt(n)), b.face_value)
    ELSE RAdd(RDiv(RMul(cp, RSub(RInt(1), RDiv(RInt(1), growth))), py),
              b.face_value)

\* the three branches; growth is (1 + periodic_yield) ** n_periods
price_branch(b, n, cp, py, growth) ==
    IF RIsZero(b.coupon_rate) THEN RDiv(b.face_value, growth)
    ELSE IF RIsZero(py) THEN RAdd(RMul(cp, RInt(n)), b.face_value)
    ELSE RAdd(RDiv(RMul(cp, RSub(RInt(1), RDiv(RInt(1), growth))), py),
              RDiv(b.face_value, growth))

\* the unrounded price of a validated quote
price(b) ==
    price_branch(b, n_periods(b), coupon_payment(b), periodic_yield(b),
                 Compound(b, n_periods(b)))

price_metrics(b, p) ==
    Ok([price            |-> Round(p, 2),
        dirty_price      |-> Round(p, 2),
        discount_premium |-> Round(RSub(p, b.face_value), 2),
        par_yield_diff   |->
            Round(RMul(RSub(b.coupon_rate, b.yield_to_maturity), RInt(10000)), 0)], 1)

price_bond(b) ==
    IF Validate(b) # "" THEN Raise("ValueError", Validate(b), 0)
    ELSE price_metrics(b, price(b))

cash_flow(b, period) ==
    RAdd(coupon_payment(b), IF period = n_periods(b) THEN b.face_value ELSE RInt(0))

\* the present value of the cash flow of one period
pv_cf(b, period) == RDiv(cash_flow(b, period), Compound(b, period))

\* weighted_cf_time after the loop's iterations 1..period
RECURSIVE weighted_cf_time(_, _, _)
weighted_cf_time(b, bond_price, period) ==
    IF period = 0 THEN RInt(0)
    ELSE RAdd(weighted_cf_time(b, bond_price, period - 1),
              RMul(RDiv(pv_cf(b, period), bond_price),
                   RDiv(RInt(period), RInt(b.coupon_frequency))))

duration_metrics(bond_price, macaulay_duration, modified_duration) ==
    Ok([macaulay_duration       |-> Round(macaulay_duration, 4),
        modified_duration       |-> Round(modified_duration, 4),
        approx_price_change_1bp |->
            Round(RMul(RMul(RNeg(modified_duration), bond_price), BasisPoint), 4)], 1)

duration_of(b, bond_price, macaulay_duration) ==
    duration_metrics(bond_price, macaulay_duration,
                     RDiv(macaulay_duration, RAdd(RInt(1), periodic_yield(b))))

\* the loop divides by bond_price in each of its n iterations
duration_loop(b, bond_price, n) ==
    IF n >= 1 /\ RIsZero(bond_price)
    THEN Raise("ZeroDivisionError", "float division by zero", 1)
    ELSE duration_of(b, bond_price, weighted_cf_time(b, bond_price, n))

duration_from(b, pb) ==
    IF pb.status # "ok" THEN pb
    ELSE duration_loop(b, Dec(pb.value.price, 2), n_periods(b))

calculate_duration(b) == duration_from(b, price_bond(b))

\* convexity_sum with the loop running one period too far
RECURSIVE convexity_sum_through(_, _)
convexity_sum_through(b, period) ==
    IF period = 0 THEN RInt(0)
    ELSE RAdd(convexity_sum_through(b, period - 1),
              RMul(RInt(period * (period + 1)), pv_cf(b, period)))

convexity_sum_overrun(b, period) == convexity_sum_through(b, period + 1)

\* convexity_sum after the loop's iterations 1..period
RECURSIVE convexity_sum(_, _)
convexity_sum(b, period) ==
    IF period = 0 THEN RInt(0)
    ELSE RAdd(convexity_sum(b, period - 1),
              RMul(RInt(period * (period + 1)), pv_cf(b, period)))

convexity_metrics(bond_price, convexity) ==
    Ok([convexity                |-> Round(convexity, 4),
        convexity_adjustment_1bp |->
            Round(RMul(RMul(RMul(RFrac(<<1, 2>>), convexity), RPow(BasisPoint, 2)),
                       bond_price), 6)], 1)

convexity_of(b, bond_price, divisor) ==
    IF RIsZero(divisor)
    THEN Raise("ZeroDivisionError", "float division by zero", 1)
    ELSE convexity_metrics(bond_price,
             RDiv(RDiv(convexity_sum(b, n_periods(b)), divisor),
                  RInt(b.coupon_frequency * b.coupon_frequency)))

convexity_with(b, bond_price) ==
    convexity_of(b, bond_price, RMul(bond_price, Compound(b, 2)))

convexity_from(b, pb) ==
    IF pb.status # "ok" THEN pb ELSE convexity_with(b, Dec(pb.value.price, 2))

calculate_convexity(b) == convexity_from(b, price_bond(b))

\* Shifted with the shift dropped
ShiftedNot(b, dy) == b

\* the quote with its yield shifted by dy
Shifted(b, dy) == [b EXCEPT !.yield_to_maturity = RAdd(@, dy)]

dv01_metrics(b, dv01) ==
    Ok([dv01         |-> Round(dv01, 4),
        dv01_per_100 |-> Round(RMul(RDiv(dv01, b.face_value), RInt(100)), 4)], 2)

dv01_up(b, price_base, up) ==
    IF up.status # "ok" THEN After(1, up)
    ELSE dv01_metrics(b, RAbs(RSub(price_base, Dec(up.value.price, 2))))

dv01_from(b, base) ==
    IF base.status # "ok" THEN base
    ELSE dv01_up(b, Dec(base.value.price, 2), price_bond(Shifted(b, BasisPoint)))

calculate_dv01(b) == dv01_from(b, price_bond(b))

\* {**m1, **m2}: the keys of both, m2's value where both have the key
Merge(m1, m2) ==
    [k \in DOMAIN m1 \cup DOMAIN m2 |-> IF k \in DOMAIN m2 THEN m2[k] ELSE m1[k]]

analytics_dv01(merged, dv) ==
    IF dv.status # "ok" THEN After(3, dv) ELSE Ok(Merge(merged, dv.value), 5)

analytics_convexity(b, merged, cx) ==
    IF cx.status # "ok" THEN After(2, cx)
    ELSE analytics_dv01(Merge(merged, cx.value), calculate_dv01(b))

analytics_duration(b, merged, du) ==
    IF du.status # "ok" THEN After(1, du)
    ELSE analytics_convexity(b, Merge(merged, du.value), calculate_convexity(b))

analytics_price(b, pm) ==
    IF pm.status # "ok" THEN pm
    ELSE analytics_duration(b, pm.value, calculate_duration(b))

bond_analytics(b) == analytics_price(b, price_bond(b))

\* estimate_metrics with the error taken against the current price
estimate_metrics_against_current(current_price, duration_effect, convexity_effect, estimated_new_price, actual_new_price) ==
    Ok([current_price       |-> Round(current_price, 2),
        estimated_new_price |-> Round(estimated_new_price, 2),
        actual_new_price    |-> Round(actual_new_price, 2),
        estimation_error    |-> Round(RSub(estimated_new_price, current_price), 4),
        duration_effect     |-> Round(duration_effect, 2),
        convexity_effect    |-> Round(convexity_effect, 4)], 6)

estimate_metrics(current_price, duration_effect, convexity_effect, estimated_new_price, actual_new_price) ==
    Ok([current_price       |-> Round(current_price, 2),
        estimated_new_price |-> Round(estimated_new_price, 2),
        actual_new_price    |-> Round(actual_new_price, 2),
        estimation_error    |-> Round(RSub(estimated_new_price, actual_new_price), 4),
        duration_effect     |-> Round(duration_effect, 2),
        convexity_effect    |-> Round(convexity_effect, 4)], 6)

estimate_reprice(current_price, duration_effect, convexity_effect, estimated_new_price, repriced) ==
    IF repriced.status # "ok" THEN After(5, repriced)
    ELSE estimate_metrics(current_price, duration_effect, convexity_effect,
                          estimated_new_price, Dec(repriced.value.price, 2))

estimate_sum(b, yield_change, current_price, duration_effect, convexity_effect) ==
    estimate_reprice(current_price, duration_effect, convexity_effect,
                     RAdd(RAdd(current_price, duration_effect), convexity_effect),
                     price_bond(Shifted(b, yield_change)))

duration_effect(modified_duration, current_price, yield_change) ==
    RMul(RMul(RNeg(modified_duration), current_price), yield_change)

\* convexity_effect with the sign of the second-order term reversed
convexity_effect_negated(convexity, current_price, yield_change, include_convexity) ==
    IF include_convexity
    THEN RNeg(RMul(RMul(RMul(RFrac(<<1, 2>>), convexity), current_price),
                   RPow(yield_change, 2)))
    ELSE RInt(0)

convexity_effect(convexity, current_price, yield_change, include_convexity) ==
    IF include_convexity
    THEN RMul(RMul(RMul(RFrac(<<1, 2>>), convexity), current_price),
              RPow(yield_change, 2))
    ELSE RInt(0)

estimate_effects(b, yield_change, include_convexity, current_price, modified_duration, convexity) ==
    estimate_sum(b, yield_change, current_price,
                 duration_effect(modified_duration, current_price, yield_change),
                 convexity_effect(convexity, current_price, yield_change,
                                  include_convexity))

estimate_from(b, yield_change, include_convexity, analytics) ==
    IF analytics.status # "ok" THEN analytics
    ELSE estimate_effects(b, yield_change, include_convexity,
                          Dec(analytics.value.price, 2),
                          Dec(analytics.value.modified_duration, 4),
                          Dec(analytics.value.convexity, 4))

price_change_estimate(b, yield_change, include_convexity) ==
    estimate_from(b, yield_change, include_convexity, bond_analytics(b))

----------------------------------------------------------------------------
(* The state machine.  A quote is the five scalar arguments, each real a   *)
(* pair <<numerator, denominator>>.  The quote is drawn in Init; an action *)
(* is one call on it; Discard ends the call, of which nothing is kept.     *)

VARIABLES quote, call, outcome

vars == <<quote, call, outcome>>

\* the largest n_periods among the valid quotes drawn
MaxPeriods == 4

FaceValues == {<<1, 250>>, <<1, 1>>, <<1000, 1>>}

CouponRates == {<<0, 1>>, <<54, 1000>>}

Yields == {<<0, 1>>, <<5, 100>>, <<54, 1000>>}

Maturities == {<<2, 5>>, <<1, 1>>, <<3, 2>>, <<2, 1>>, <<3, 1>>, <<4, 1>>, <<5, 1>>}

YieldChanges == {<<0, 1>>, <<1, 400>>, <<-1, 20>>, <<-6, 100>>}

Quote(fv, cr, ytm, years, freq) ==
    [face_value |-> fv, coupon_rate |-> cr, yield_to_maturity |-> ytm,
     years_to_maturity |-> years, coupon_frequency |-> freq]

\* the arguments as the functions receive them
Args(q) ==
    [face_value        |-> RFrac(q.face_value),
     coupon_rate       |-> RFrac(q.coupon_rate),
     yield_to_maturity |-> RFrac(q.yield_to_maturity),
     years_to_maturity |-> RFrac(q.years_to_maturity),
     coupon_frequency  |-> q.coupon_frequency]

\* floor(years_to_maturity * coupon_frequency) of a quote with positive fields
Periods(q) ==
    (q.years_to_maturity[1] * q.coupon_frequency) \div q.years_to_maturity[2]

\* quotes that pass validation, with at most MaxPeriods periods
ValidQuotes ==
    {q \in {Quote(fv, cr, ytm, years, freq) :
                fv \in FaceValues, cr \in CouponRates, ytm \in Yields,
                years \in Maturities, freq \in AllowedFrequencies} :
        Periods(q) <= MaxPeriods}

\* quotes with any combination of invalid and valid fields
MixedQuotes ==
    {Quote(fv, cr, ytm, years, freq) :
        fv \in {<<0, 1>>, <<-100, 1>>, <<1000, 1>>},
        cr \in {<<-1, 100>>, <<54, 1000>>},
        ytm \in {<<-1, 100>>, <<5, 100>>},
        years \in {<<0, 1>>, <<-1, 1>>, <<1, 1>>},
        freq \in {0, 3, 2}}

Quotes == ValidQuotes \cup MixedQuotes

NoCall == [op |-> "none"]

NoOutcome == [status |-> "none"]

Init ==
    /\ quote \in Quotes
    /\ call = NoCall
    /\ outcome = NoOutcome

PriceBond ==
    /\ call = NoCall
    /\ call' = [op |-> "price_bond"]
    /\ outcome' = price_bond(Args(quote))
    /\ UNCHANGED quote

CalculateDuration ==
    /\ call = NoCall
    /\ call' = [op |-> "calculate_duration"]
    /\ outcome' = calculate_duration(Args(quote))
    /\ UNCHANGED quote

CalculateConvexity ==
    /\ call = NoCall
    /\ call' = [op |-> "calculate_convexity"]
    /\ outcome' = calculate_convexity(Args(quote))
    /\ UNCHANGED quote

CalculateDv01 ==
    /\ call = NoCall
    /\ call' = [op |-> "calculate_dv01"]
    /\ outcome' = calculate_dv01(Args(quote))
    /\ UNCHANGED quote

BondAnalytics ==
    /\ call = NoCall
    /\ call' = [op |-> "bond_analytics"]
    /\ outcome' = bond_analytics(Args(quote))
    /\ UNCHANGED quote

PriceChangeEstimate ==
    /\ call = NoCall
    /\ \E yc \in YieldChanges, ic \in BOOLEAN :
          /\ call' = [op |-> "price_change_estimate", yield_change |-> yc,
                      include_convexity |-> ic]
          /\ outcome' = price_change_estimate(Args(quote), RFrac(yc), ic)
    /\ UNCHANGED quote

Discard ==
    /\ call # NoCall
    /\ call' = NoCall
    /\ outcome' = NoOutcome
    /\ UNCHANGED quote

Next ==
    \/ PriceBond
    \/ CalculateDuration
    \/ CalculateConvexity
    \/ CalculateDv01
    \/ BondAnalytics
    \/ PriceChangeEstimate
    \/ Discard

Spec == Init /\ [][Next]_vars

----------------------------------------------------------------------------
(* The claims.  Each is a predicate on the state after one call: quote is  *)
(* the argument tuple, call the operation (and, for price_change_estimate, *)
(* yield_change and include_convexity), outcome what the call ended in.    *)

Abs(i) == IF i < 0 THEN -i ELSE i

Max(i, j) == IF i >= j THEN i ELSE j

Called(op) == call.op = op

Returned == outcome.status = "ok"

\* the quote meets the five conditions on the arguments
IsValid(q) ==
    /\ q.face_value[1] > 0
    /\ q.years_to_maturity[1] > 0
    /\ q.coupon_rate[1] >= 0
    /\ q.yield_to_maturity[1] >= 0
    /\ q.coupon_frequency \in {1, 2, 4, 12}

\* coupon_rate = yield_to_maturity
SameRate(q) ==
    q.coupon_rate[1] * q.yield_to_maturity[2] = q.yield_to_maturity[1] * q.coupon_rate[2]

\* years_to_maturity * coupon_frequency is not an integer
FractionalPeriods(q) ==
    (q.years_to_maturity[1] * q.coupon_frequency) % q.years_to_maturity[2] # 0

\* what price_bond returns for the state's quote
BasePrice == price_bond(Args(quote)).value

\* yield_to_maturity + yield_change < 0 for the state's call
ShiftedYieldNegative ==
    quote.yield_to_maturity[1] * call.yield_change[2]
        + call.yield_change[1] * quote.yield_to_maturity[2] < 0

\* C1: with any argument invalid, each of the six operations ends in
\* ValueError, raised before any execution of the pricing arithmetic.
InvalidArgumentsRaise ==
    (~Called("none") /\ ~IsValid(quote))
        => (outcome.status = "ValueError" /\ outcome.priced = 0)

\* C1 witness: price_change_estimate on a quote whose only invalid field is
\* coupon_frequency = 3 has ended in ValueError.
InvalidFrequencyRaised ==
    /\ Called("price_change_estimate")
    /\ quote.coupon_frequency = 3
    /\ IsValid([quote EXCEPT !.coupon_frequency = 2])
    /\ outcome.status = "ValueError"
    /\ outcome.msg = "Frequency must be 1, 2, 4, or 12"

\* C2: for a valid quote with coupon_rate = yield_to_maturity, price_bond
\* returns discount_premium = 0 and par_yield_diff = 0.
AtParHasNoPremium ==
    (Called("price_bond") /\ IsValid(quote) /\ SameRate(quote))
        => (/\ Returned
            /\ outcome.value.discount_premium = 0
            /\ outcome.value.par_yield_diff = 0)

\* C2 witness: a coupon bond at par whose years * frequency is not an integer
\* was priced through the general branch.
AtParFractionalPriced ==
    /\ Called("price_bond")
    /\ Returned
    /\ SameRate(quote)
    /\ quote.coupon_rate[1] > 0
    /\ FractionalPeriods(quote)
    /\ Periods(quote) >= 1
    /\ outcome.value.discount_premium = 0

\* C3 as stated: whenever calculate_convexity returns for a valid quote, the
\* convexity is strictly positive.
ConvexityPositive ==
    (Called("calculate_convexity") /\ IsValid(quote) /\ Returned)
        => outcome.value.convexity > 0

\* C3 amended: the returned convexity is never negative, and it is 0 when
\* n_periods = 0.
ConvexityNonNegative ==
    (Called("calculate_convexity") /\ IsValid(quote) /\ Returned)
        => (/\ outcome.value.convexity >= 0
            /\ (Periods(quote) = 0 => outcome.value.convexity = 0))

\* C3 witness: calculate_convexity returned convexity 0 for a quote with no
\* whole period.
ConvexityZeroReturned ==
    /\ Called("calculate_convexity")
    /\ IsValid(quote)
    /\ Returned
    /\ Periods(quote) = 0
    /\ outcome.value.convexity = 0

\* C4: for a valid quote priced at or above par, the returned
\* macaulay_duration is at most years_to_maturity.
MacaulayWithinMaturity ==
    (/\ Called("calculate_duration")
     /\ IsValid(quote)
     /\ Returned
     /\ BasePrice.discount_premium >= 0)
        => outcome.value.macaulay_duration * quote.years_to_maturity[2]
               <= quote.years_to_maturity[1] * 10000

\* the estimation_error of the same call with include_convexity = False
ErrorWithoutConvexity ==
    price_change_estimate(Args(quote), RFrac(call.yield_change), FALSE).value.estimation_error

\* a returned price_change_estimate with include_convexity = True and
\* |yield_change| <= 0.0025
SmallShiftWithConvexity ==
    /\ Called("price_change_estimate")
    /\ IsValid(quote)
    /\ Returned
    /\ call.include_convexity
    /\ Abs(call.yield_change[1]) * 400 <= call.yield_change[2]

InvestmentGrade(q) ==
    /\ 2 * q.coupon_rate[2] <= 100 * q.coupon_rate[1]
    /\ 100 * q.coupon_rate[1] <= 8 * q.coupon_rate[2]
    /\ q.yield_to_maturity[2] <= 100 * q.yield_to_maturity[1]
    /\ 100 * q.yield_to_maturity[1] <= 10 * q.yield_to_maturity[2]
    /\ q.years_to_maturity[2] <= q.years_to_maturity[1]
    /\ q.years_to_maturity[1] <= 30 * q.years_to_maturity[2]

\* |approx_price_change_1bp| of calculate_duration for the state's quote
LinearEstimate == Abs(calculate_duration(Args(quote)).value.approx_price_change_1bp)

\* C6: for investment-grade parameters, dv01 and |approx_price_change_1bp|
\* differ by at most 5% (of the larger of the two).
Dv01AgreesWithDuration ==
    (/\ Called("calculate_dv01")
     /\ IsValid(quote)
     /\ InvestmentGrade(quote)
     /\ Returned
     /\ calculate_duration(Args(quote)).status = "ok")
        => 20 * Abs(outcome.value.dv01 - LinearEstimate)
               <= Max(outcome.value.dv01, LinearEstimate)

\* C7 as stated: the field estimation_error is the field estimated_new_price
\* minus the field actual_new_price.
ErrorIsDifferenceOfFields ==
    (Called("price_change_estimate") /\ Returned)
        => outcome.value.estimation_error
               = 100 * (outcome.value.estimated_new_price - outcome.value.actual_new_price)

\* C7 amended: estimation_error is within 0.005 of the difference of the two
\* fields, and actual_new_price is price_bond's price at the shifted yield.
ErrorTracksFields ==
    (Called("price_change_estimate") /\ Returned)
        => (/\ Abs(outcome.value.estimation_error
                     - 100 * (outcome.value.estimated_new_price
                                - outcome.value.actual_new_price)) <= 50
            /\ outcome.value.actual_new_price
                 = price_bond(Shifted(Args(quote), RFrac(call.yield_change))).value.price)

\* C7 witness: a returned estimate whose error is not the difference of the
\* two rounded fields, after a shift that moved the price.
ErrorDiffersFromFields ==
    /\ Called("price_change_estimate")
    /\ Returned
    /\ outcome.value.actual_new_price # outcome.value.current_price
    /\ outcome.value.estimation_error
         # 100 * (outcome.value.estimated_new_price - outcome.value.actual_new_price)

\* C8: when the rounded base price is 0, calculate_duration ends in the
\* division-by-zero error, for every n_periods.
ZeroPriceFailsDuration ==
    (Called("calculate_duration") /\ IsValid(quote) /\ BasePrice.price = 0)
        => outcome.status = "ZeroDivisionError"

\* the sum of the present values the loops discount, periods 1..period
RECURSIVE schedule_value(_, _)
schedule_value(b, period) ==
    IF period = 0 THEN RInt(0)
    ELSE RAdd(schedule_value(b, period - 1), pv_cf(b, period))

\* C9: the cash flows calculate_duration and calculate_convexity discount sum
\* to the unrounded price of price_bond.
ScheduleSumsToPrice ==
    (Called("calculate_duration") /\ IsValid(quote))
        => REq(schedule_value(Args(quote), n_periods(Args(quote))), price(Args(quote)))

\* C10 as stated: for a valid quote, price_change_estimate ends in the
\* ValueError of the repricing call (after the five pricings of the
\* analytics) when the shifted yield is negative, and in no ValueError
\* otherwise.
ShiftedYieldDecidesError ==
    (Called("price_change_estimate") /\ IsValid(quote))
        => IF ShiftedYieldNegative
           THEN /\ outcome.status = "ValueError"
                /\ outcome.msg = "Rates cannot be negative"
                /\ outcome.priced = 5
           ELSE outcome.status # "ValueError"

\* C10 amended: that holds for the quotes whose rounded base price is not 0;
\* when it is 0 the call ends in the division-by-zero error of the analytics,
\* before the repricing call, whatever the shifted yield.
ShiftedYieldDecidesErrorAfterAnalytics ==
    (Called("price_change_estimate") /\ IsValid(quote))
        => IF BasePrice.price = 0
           THEN outcome.status = "ZeroDivisionError" /\ outcome.priced < 5
           ELSE IF ShiftedYieldNegative
           THEN /\ outcome.status = "ValueError"
                /\ outcome.msg = "Rates cannot be negative"
                /\ outcome.priced = 5
           ELSE outcome.status # "ValueError"

\* C10 witness: the repricing call raised after the analytics were computed.
RepricingRaised ==
    /\ Called("price_change_estimate")
    /\ IsValid(quote)
    /\ ShiftedYieldNegative
    /\ outcome.status = "ValueError"
    /\ outcome.priced = 5

=============================================================================
